---------------------------- MODULE Spec2Model ----------------------------
(***************************************************************************)
(* A model of parser.py: reads are scanned for an adapter anchor (S2), the *)
(* text after the anchor is processed recursively, and for each anchor the *)
(* segment between the last viral motif and the first poly-A run of the    *)
(* anchor's prefix is printed as a numbered FASTA-like record.             *)
(*                                                                         *)
(* Texts are sequences of one-letter strings.  Offsets are the 0-based,    *)
(* end-exclusive offsets of the Python code, so the slice s[a:b] is        *)
(* SubSeq(s, a + 1, b).                                                    *)
(***************************************************************************)
EXTENDS Integers, Sequences, FiniteSets, TLC

Min(a, b) == IF a < b THEN a ELSE b

\* Python's s[a:b] for 0 <= a and b <= len(s).
Slice(s, a, b) == SubSeq(s, a + 1, b)

\* Python's s[a:].
SliceFrom(s, a) == SubSeq(s, a + 1, Len(s))

\* Python's reversed(s).
Reversed(s) == [i \in 1..Len(s) |-> s[Len(s) + 1 - i]]

(***************************************************************************)
(* The matchers of lines 27-30: a pattern and the number of mismatches     *)
(* allowed.                                                                *)
(***************************************************************************)
HIV_matcher ==
  [pat |-> <<"C","T","T","G","T","C","T","T","C","G","T","T","G","G","G","A","G",
             "T","G","A","A","T","T","A","G","C","C","C","T","T","C","C","A">>,
   tau |-> 5]

SIV_matcher ==
  [pat |-> <<"T","C","T","A","T","G","T","C","T","T","C","T","T","G","C","A","C",
             "T","G","T","A","A","T","A","A","A","T","C","C","C","T","T","C","C",
             "A">>,
   tau |-> 5]

S2_matcher ==
  [pat |-> <<"A","A","A","A","A","A","A","G","A","T","C","G","G","A","A","G","A",
             "G","C","A","C","A","C","G","T","C","T","G","A","A","C","T","C","C",
             "A","G","T","C","A","C">>,
   tau |-> 6]

A_matcher ==
  [pat |-> <<"A","A","A","A","A","A","A","A","A","A","A","A","A","A","A","A","A",
             "A","A","A">>,
   tau |-> 3]

(***************************************************************************)
(* The approximate matcher (the seeq library, used through match, matchAll,*)
(* matchlist and tokenize).  A column col holds, for every pattern prefix  *)
(* of length j (at index j + 1), the least edit distance between that      *)
(* prefix and a piece of text ending at the current position, capped at    *)
(* tau + 1.  Only the entries up to the last one within tau are kept: the  *)
(* entries after it are all tau + 1.                                       *)
(***************************************************************************)
None == [none |-> TRUE]

FirstCol(m) == [j \in 1..Min(Len(m.pat), m.tau) + 1 |-> j - 1]

\* The entry at index idx of a column whose kept part is col.
ColAt(col, cap, idx) == IF idx <= Len(col) THEN col[idx] ELSE cap

\* Drops the entries at the end of a column that have reached the cap.
RECURSIVE Trim(_, _)
Trim(col, cap) ==
  IF Len(col) > 1 /\ col[Len(col)] >= cap
  THEN Trim(SubSeq(col, 1, Len(col) - 1), cap)
  ELSE col

\* The column after the symbol c, given the column prev before it: each entry
\* is the least of a substitution (or match), a deletion and an insertion.
ColStep(prev, pat, cap, c) ==
  LET RECURSIVE Grow(_)
      Grow(acc) ==
        LET j == Len(acc)
        IN IF j > Len(pat) \/ (j > Len(prev) /\ acc[j] >= cap) THEN acc
           ELSE Grow(Append(acc,
                  Min(cap, Min(ColAt(prev, cap, j) + (IF pat[j] = c THEN 0 ELSE 1),
                               Min(ColAt(prev, cap, j + 1) + 1, acc[j] + 1)))))
  IN Trim(Grow(<<0>>), cap)

NextCol(m, col, c) == ColStep(col, m.pat, m.tau + 1, c)

\* The distance a column reports for the whole pattern.
ColDist(m, col) == ColAt(col, m.tau + 1, Len(m.pat) + 1)

(***************************************************************************)
(* The forward search: the end of the first streak.  A streak begins when  *)
(* the distance falls to tau or less, goes on while the distance does not  *)
(* rise, and ends where it rises (the end of the text counts as a rise).   *)
(* The search state is the column, the streak's distance (tau + 1 before a *)
(* streak) and the hit, once found: the end offset and the distance.       *)
(***************************************************************************)
SearchInit(m) == [col |-> FirstCol(m), streak |-> m.tau + 1, hit |-> None]

\* One position of the search: the symbol at offset i, or the end of the text
\* when i = Len(text).
SearchStep(m, text, st, i) ==
  IF st.hit # None THEN st
  ELSE LET next == IF i < Len(text) THEN NextCol(m, st.col, text[i + 1])
                   ELSE st.col
           cur  == IF i < Len(text) THEN ColDist(m, next) ELSE m.tau + 1
       IN IF st.streak < cur
          THEN [st EXCEPT !.hit = [end |-> i, dist |-> st.streak]]
          ELSE [col |-> next, streak |-> Min(st.streak, cur), hit |-> None]

\* The positions lo .. hi - 1 in order (halved, to keep the evaluation shallow).
RECURSIVE SearchRange(_, _, _, _, _)
SearchRange(m, text, st, lo, hi) ==
  IF st.hit # None \/ lo >= hi THEN st
  ELSE IF hi = lo + 1 THEN SearchStep(m, text, st, lo)
  ELSE LET mid == (lo + hi) \div 2
       IN SearchRange(m, text, SearchRange(m, text, st, lo, mid), mid, hi)

\* The hit of the search that starts at offset from, or None.
SearchEnd(m, text, from) ==
  SearchRange(m, text, SearchInit(m), from, Len(text) + 1).hit

\* The backward search from the end e for the start: the nearest offset from
\* which the text up to e is within dist of the pattern.
RECURSIVE SearchStart(_, _, _, _, _, _)
SearchStart(rm, text, e, dist, j, col) ==
  LET next == NextCol(rm, col, text[e - j])
  IN IF ColDist(rm, next) <= dist \/ j + 1 >= e THEN e - (j + 1)
     ELSE SearchStart(rm, text, e, dist, j + 1, next)

ReverseMatcher(m) == [pat |-> Reversed(m.pat), tau |-> m.tau]

\* The first match at or after offset from, as <<start, end>>, or None.
MatchFrom(m, text, from) ==
  LET hit == SearchEnd(m, text, from)
  IN IF hit = None THEN None
     ELSE <<SearchStart(ReverseMatcher(m), text, hit.end, hit.dist, 0,
                        FirstCol(m)),
            hit.end>>

\* The search of matcher.match(text): the matchlist of the first match, or
\* None.
Search(m, text) ==
  LET hit == MatchFrom(m, text, 0)
  IN IF hit = None THEN None ELSE [matchlist |-> <<hit>>]

\* The search of matcher.matchAll(text): the matchlist of all matches, left
\* to right, each search resuming where the match before it ended; None when
\* there is none.
RECURSIVE AllFrom(_, _, _)
AllFrom(m, text, from) ==
  LET hit == MatchFrom(m, text, from)
  IN IF hit = None THEN <<>> ELSE <<hit>> \o AllFrom(m, text, hit[2])

SearchAll(m, text) ==
  LET all == AllFrom(m, text, 0)
  IN IF all = <<>> THEN None ELSE [matchlist |-> all]

\* match.tokenize() of a single match: (prefix, match, suffix).
Tokenize(text, match) ==
  LET hit == match.matchlist[1]
  IN <<Slice(text, 0, hit[1]), Slice(text, hit[1], hit[2]),
       SliceFrom(text, hit[2])>>

(***************************************************************************)
(* reverse_complement, lines 37-43.                                        *)
(***************************************************************************)
complement_dict == [x \in {"A", "T", "C", "G"} |->
                      CASE x = "A" -> "T" [] x = "T" -> "A"
                        [] x = "C" -> "G" [] x = "G" -> "C"]

\* A variant that keeps an unknown symbol as it is.
Complement_keep(x) == IF x \in DOMAIN complement_dict THEN complement_dict[x] ELSE x

\* complement_dict.get(x, "N")
Complement(x) == IF x \in DOMAIN complement_dict THEN complement_dict[x] ELSE "N"

reverse_complement(dna) ==
  LET r == Reversed(dna) IN [i \in 1..Len(dna) |-> Complement(r[i])]

(***************************************************************************)
(* The barcode-gated variant of the script: the tag, and the test on the   *)
(* six symbols after the anchor.                                           *)
(***************************************************************************)
BARCODE == <<"A", "G", "C", "A", "A", "T">>

\* The symbols of the text after the anchor that the tag is compared with.
AfterAnchor(suffix) == Slice(suffix, 0, Min(Len(BARCODE), Len(suffix)))

\* A variant without the test.
BarcodeOK_open(is_gated, suffix) == TRUE

BarcodeOK(is_gated, suffix) == is_gated => AfterAnchor(suffix) = BARCODE

\* The tag of the header: none in the plain variant.
HeaderTag(is_gated) == IF is_gated THEN BARCODE ELSE <<>>

(***************************************************************************)
(* The pieces of process, lines 46-81.                                     *)
(***************************************************************************)
\* A variant of line 64 with the two sides taken for each other.
Split_swapped(tokens) == [prefix |-> tokens[3], suffix |-> tokens[1]]

\* Line 64: prefix, _, suffix = anchor.tokenize()
Split(tokens) == [prefix |-> tokens[1], suffix |-> tokens[3]]

\* A variant of line 68 with the call made after the test of line 69.
Descends_if_viral(anchor, vir) == anchor # None /\ vir # None

\* Line 68: the call on the suffix is made whenever the anchor was found,
\* before vir is looked at.
Descends(anchor, vir) == anchor # None

\* A variant of line 72 that takes the first viral match.
VirPos_first(vir) == vir.matchlist[1][2]

\* Line 72: the end offset of the last viral match.
VirPos(vir) == vir.matchlist[Len(vir.matchlist)][2]

\* A variant of line 77 that leaves the offset relative to prefix[vir_pos:].
APos_relative(a, vir_pos) == a.matchlist[1][1]

\* Line 77: the start of the poly-A match, as an offset of prefix.
APos(a, vir_pos) == a.matchlist[1][1] + vir_pos

\* A variant of line 78 that lets an empty segment through.
ShouldEmit_or_equal(a_pos, vir_pos) == a_pos >= vir_pos

\* Line 78.
ShouldEmit(a_pos, vir_pos) == a_pos > vir_pos

\* Line 80: the record printed, a header line and a sequence line.
Record(lineno, tag, prefix, vir_pos, a_pos) ==
  [id |-> lineno, tag |-> tag, seq |-> Slice(prefix, vir_pos, a_pos)]

\* A variant that prints the record twice.
Emit_twice(o, rec) == Append(Append(o, rec), rec)

\* Line 80: print appends the record to the output.
Emit(o, rec) == Append(o, rec)

\* A variant of line 81 that leaves the counter as it is.
NextLineno_same(lineno) == lineno

\* Line 81.
NextLineno(lineno) == lineno + 1

\* A variant of lines 133-134 with the reverse complement processed first.
Passes_swapped(read) == <<reverse_complement(read), read>>

\* Lines 133-134: the two texts processed for a read, in this order.
Passes(read) == <<read, reverse_complement(read)>>

(***************************************************************************)
(* The reads of the input files.                                           *)
(***************************************************************************)
Junk == <<"G", "C", "G", "T">>
Seg1 == <<"C", "G", "T", "A", "C", "G", "T", "C", "G", "T">>
Seg2 == <<"G", "G", "A", "T", "T", "C", "C", "G", "G", "T">>
OtherTag == <<"T", "T", "G", "A", "C", "C">>
SIV == SIV_matcher.pat
HIV == HIV_matcher.pat
S2 == S2_matcher.pat
PolyA == A_matcher.pat

\* <junk><SIV motif><10 bases><20 x A><S2 adapter><junk>, nothing mismatched.
Scenario(before, segment, after) ==
  before \o SIV \o segment \o PolyA \o S2 \o after

\* The segments end in bases other than A, so that the poly-A run starts
\* where the segment ends.
ScenarioParts ==
  {Junk, <<>>} \X {Seg1, Seg2} \X {BARCODE \o Junk, OtherTag}

ScenarioReads == {Scenario(p[1], p[2], p[3]) : p \in ScenarioParts}

\* Two anchors, each with a motif, a segment and a poly-A run before it; the
\* first is followed by another tag.
ReadTwo == Scenario(<<>>, Seg1, OtherTag) \o Scenario(<<>>, Seg2, BARCODE)

\* The poly-A run starts where the motif ends; a second anchor follows.
ReadDegenerate == SIV \o PolyA \o S2 \o BARCODE \o Junk
                  \o Scenario(<<>>, Seg2, BARCODE)

\* An anchor with the HIV motif before it and no SIV motif, and a symbol that
\* is no base.
ReadHIV == <<"N">> \o HIV \o Seg1 \o PolyA \o S2

\* Two motifs, a poly-A run before the last motif and two after it.
ReadRepeats == SIV \o Seg2 \o PolyA \o SIV \o Seg1 \o PolyA \o Junk \o PolyA
               \o S2 \o BARCODE

\* A construct on each strand.
ReadBothStrands == Scenario(<<>>, Seg1, BARCODE)
                   \o reverse_complement(Scenario(<<>>, Seg2, BARCODE))

\* Mismatches in the motif, in the poly-A run and in the adapter.
ReadFuzzy == Junk \o [SIV EXCEPT ![5] = "A", ![20] = "C"] \o Seg1
             \o [PolyA EXCEPT ![10] = "G"] \o Tail([S2 EXCEPT ![30] = "T"])
             \o BARCODE

\* Three anchors that give nothing (no motif before the first, no poly-A run
\* before the second, a poly-A run right after the motif before the third)
\* and a fourth that gives a segment.
ReadBarren == Junk \o S2 \o OtherTag
              \o SIV \o Seg2 \o S2 \o BARCODE
              \o SIV \o PolyA \o S2 \o BARCODE
              \o Scenario(<<>>, Seg1, BARCODE)

\* No anchor.
ReadPlain == Junk \o SIV \o Seg1 \o PolyA

Reads == ScenarioReads \cup {ReadTwo, ReadDegenerate, ReadHIV, ReadRepeats,
                             ReadBothStrands, ReadFuzzy, ReadBarren,
                             ReadPlain}

MaxReads == 2

(***************************************************************************)
(* The searches are tabulated for the texts that occur in the runs: every  *)
(* text process is called on gets its anchor search, every prefix its      *)
(* viral searches and every text after a viral match its poly-A search.    *)
(* Match and MatchAll are the searches, read from the tables where they    *)
(* are tabulated.                                                          *)
(***************************************************************************)
PassTexts == UNION {{Passes(read)[1], Passes(read)[2]} : read \in Reads}

\* The texts process calls itself on from the texts of a table of anchor
\* searches.
SuffixesOf(table) ==
  {Split(Tokenize(text, table[text])).suffix :
     text \in {t \in DOMAIN table : table[t] # None}}

\* The anchor searches of the texts of a set that a table does not hold yet.
AnchorsIn(texts, table) ==
  [text \in texts \ DOMAIN table |-> Search(S2_matcher, text)]

\* A table of anchor searches, with those of the texts process calls itself
\* on from its texts.
Deeper(table) == table @@ AnchorsIn(SuffixesOf(table), table)

\* The texts main calls process on, then one depth of calls after the other:
\* no read holds more than four anchors on a strand.
AnchorsTop == AnchorsIn(PassTexts, <<>>)
AnchorsFirst == Deeper(AnchorsTop)
AnchorsSecond == Deeper(AnchorsFirst)
AnchorsThird == Deeper(AnchorsSecond)
AnchorTable == Deeper(AnchorsThird)

\* The viral searches of the prefixes of a table of anchor searches.
ViralsIn(table) ==
  [m \in {HIV_matcher, SIV_matcher},
   prefix \in {Split(Tokenize(text, table[text])).prefix :
                 text \in {t \in DOMAIN table : table[t] # None}}
     |-> SearchAll(m, prefix)]

ViralTable == ViralsIn(AnchorTable)

\* The poly-A searches after the viral matches of a table of viral searches.
PolyAsIn(table) ==
  [text \in {SliceFrom(q[2], VirPos(table[q])) :
               q \in {r \in DOMAIN table : table[r] # None}}
     |-> Search(A_matcher, text)]

PolyATable == PolyAsIn(ViralTable)

\* The value a table holds for a key, or another value.
Lookup(table, key, other) == IF key \in DOMAIN table THEN table[key] ELSE other

\* matcher.match(text)
Match(m, text) ==
  CASE m = S2_matcher -> Lookup(AnchorTable, text, Search(m, text))
    [] m = A_matcher  -> Lookup(PolyATable, text, Search(m, text))
    [] OTHER          -> Search(m, text)

\* matcher.matchAll(text)
MatchAll(m, text) == Lookup(ViralTable, <<m, text>>, SearchAll(m, text))

(***************************************************************************)
(* The state of a run.                                                     *)
(***************************************************************************)
VARIABLES
  viral_matcher,  \* line 111
  gated,          \* whether the barcode-gated variant runs
  LINENO,         \* line 34
  out,            \* the records printed so far, in order
  nreads,         \* the sequence lines read so far
  pc,             \* where main is: at the "start", in an open file ("file"),
                  \* or in the call on a line ("fwd") or on its reverse
                  \* complement ("rev")
  seq,            \* the sequence line being processed
  stack,          \* the calls of process in progress, the outermost first
  rc              \* a string and its successive reverse complements

vars == <<viral_matcher, gated, LINENO, out, nreads, pc, seq, stack, rc>>

\* A call of process that has not started: first is the number of records
\* printed before the call.
Call(text, first) ==
  [text |-> text, at |-> "enter", anchor |-> None, prefix |-> <<>>,
   suffix |-> <<>>, vir |-> None, first |-> first]

Top == stack[Len(stack)]
Pop == SubSeq(stack, 1, Len(stack) - 1)

Init ==
  /\ \/ gated = FALSE /\ viral_matcher \in {HIV_matcher, SIV_matcher}
     \/ gated = TRUE /\ viral_matcher = SIV_matcher
  /\ LINENO = 1
  /\ out = <<>>
  /\ nreads = 0
  /\ pc = "start"
  /\ seq = <<>>
  /\ stack = <<>>
  /\ rc = <<>>

\* Lines 126-127: the next input file is opened.
OpenFile ==
  /\ pc \in {"start", "file", "rev"} /\ stack = <<>>
  /\ pc' = "file"
  /\ UNCHANGED <<viral_matcher, gated, LINENO, out, nreads, seq, stack, rc>>

\* Lines 130-133: the next sequence line is read and process is called on it.
ReadLine ==
  /\ pc \in {"file", "rev"} /\ stack = <<>>
  /\ nreads < MaxReads
  /\ \E read \in Reads :
       /\ seq' = read
       /\ stack' = <<Call(Passes(read)[1], Len(out))>>
  /\ nreads' = nreads + 1
  /\ pc' = "fwd"
  /\ UNCHANGED <<viral_matcher, gated, LINENO, out, rc>>

\* Line 134: process is called on the reverse complement.
ReverseLine ==
  /\ pc = "fwd" /\ stack = <<>>
  /\ stack' = <<Call(Passes(seq)[2], Len(out))>>
  /\ pc' = "rev"
  /\ UNCHANGED <<viral_matcher, gated, LINENO, out, nreads, seq, rc>>

\* Line 68, with the anchor, the two sides of the text and the viral matches:
\* the call waits for the call it makes on the suffix.
Waiting(anchor, parts, vir) ==
  [Top EXCEPT !.at = "resume", !.anchor = anchor, !.prefix = parts.prefix,
              !.suffix = parts.suffix, !.vir = vir]

AfterViral(anchor, parts, vir) ==
  IF Descends(anchor, vir)
  THEN Append(Append(Pop, Waiting(anchor, parts, vir)),
              Call(parts.suffix, Len(out)))
  ELSE Append(Pop, Waiting(anchor, parts, vir))

\* Line 66, with the anchor and the two sides of the text.
AfterSplit(anchor, parts) ==
  AfterViral(anchor, parts, MatchAll(viral_matcher, parts.prefix))

\* Lines 61-64, with the result of the anchor search.
AfterAnchorSearch(anchor) ==
  IF anchor = None THEN Pop
  ELSE AfterSplit(anchor, Split(Tokenize(Top.text, anchor)))

\* Lines 60-68: the anchor is searched; without one the call returns, with
\* one the text is split, the viral motif is searched in the prefix and
\* process is called on the suffix.
ProcessEnter ==
  /\ stack # <<>> /\ Top.at = "enter"
  /\ stack' = AfterAnchorSearch(Match(S2_matcher, Top.text))
  /\ UNCHANGED <<viral_matcher, gated, LINENO, out, nreads, pc, seq, rc>>

\* Lines 80-81.
WriteRecord(rec) ==
  /\ out' = Emit(out, rec)
  /\ LINENO' = NextLineno(LINENO)

\* A return of lines 70 and 76, or the end of process without a record.
Silent == UNCHANGED <<out, LINENO>>

\* Lines 78-81, with the two offsets.
AtOffsets(prefix, vir_pos, a_pos) ==
  IF ShouldEmit(a_pos, vir_pos) /\ BarcodeOK(gated, Top.suffix)
  THEN WriteRecord(Record(LINENO, HeaderTag(gated), prefix, vir_pos, a_pos))
  ELSE Silent

\* Lines 75-77, with the result of the poly-A search.
AfterPolyASearch(prefix, vir_pos, a) ==
  IF a = None THEN Silent
  ELSE AtOffsets(prefix, vir_pos, APos(a, vir_pos))

\* Line 74, with the end of the last viral match.
AfterVirPos(prefix, vir_pos) ==
  AfterPolyASearch(prefix, vir_pos,
                   Match(A_matcher, SliceFrom(prefix, vir_pos)))

\* Lines 69-81, after the call on the suffix has returned.
ProcessResume ==
  /\ stack # <<>> /\ Top.at = "resume"
  /\ IF Top.vir = None THEN Silent
     ELSE AfterVirPos(Top.prefix, VirPos(Top.vir))
  /\ stack' = Pop
  /\ UNCHANGED <<viral_matcher, gated, nreads, pc, seq, rc>>

Next == OpenFile \/ ReadLine \/ ReverseLine \/ ProcessEnter \/ ProcessResume

Spec == Init /\ [][Next]_vars

\* The interpreter runs a call in progress to its end.
FairSpec == Spec /\ WF_vars(ProcessEnter) /\ WF_vars(ProcessResume)

(***************************************************************************)
(* reverse_complement on its own: a string is drawn and the function is    *)
(* applied to it, and to the result.                                       *)
(***************************************************************************)
MaxLen == 3

Symbols == {"A", "C", "G", "T", "N", "a"}

Strings == UNION {[1..n -> Symbols] : n \in 0..MaxLen}

InitRC ==
  /\ rc \in {<<s>> : s \in Strings}
  /\ gated = FALSE /\ viral_matcher = HIV_matcher
  /\ LINENO = 1 /\ out = <<>> /\ nreads = 0 /\ pc = "start"
  /\ seq = <<>> /\ stack = <<>>

ApplyRC ==
  /\ Len(rc) \in 1..2
  /\ rc' = Append(rc, reverse_complement(rc[Len(rc)]))
  /\ UNCHANGED <<viral_matcher, gated, LINENO, out, nreads, pc, seq, stack>>

SpecRC == InitRC /\ [][ApplyRC]_vars

(***************************************************************************)
(* What a call of process is expected to print, stated from the text alone. *)
(***************************************************************************)
\* The first anchor of text: the match, or None.
FirstAnchor(text) == Match(S2_matcher, text)

TextBefore(text, anchor) == Slice(text, 0, anchor.matchlist[1][1])

TextAfter(text, anchor) == SliceFrom(text, anchor.matchlist[1][2])

\* The texts an anchor is found in when text is split greedily at the first
\* anchor, then the text after it at its first anchor, and so on.
RECURSIVE AnchorTexts(_)
AnchorTexts(text) ==
  LET anchor == FirstAnchor(text)
  IN IF anchor = None THEN <<>>
     ELSE <<text>> \o AnchorTexts(TextAfter(text, anchor))

AnchorCount(text) == Len(AnchorTexts(text))

\* The highest end offset among the matches of a matchlist.
LastEnd(vir) ==
  LET ends == {vir.matchlist[k][2] : k \in 1..Len(vir.matchlist)}
  IN CHOOSE e \in ends : \A f \in ends : f <= e

\* For a text with an anchor: the end of the last viral motif before the
\* anchor and the start of the first poly-A run after that end, as offsets of
\* the text; None without a motif or without a poly-A run.
Segment(vm, text) ==
  LET prefix == TextBefore(text, FirstAnchor(text))
      vir    == MatchAll(vm, prefix)
  IN IF vir = None THEN None
     ELSE LET virEnd == LastEnd(vir)
              a      == Match(A_matcher, SliceFrom(prefix, virEnd))
          IN IF a = None THEN None
             ELSE [virEnd |-> virEnd, aStart |-> virEnd + a.matchlist[1][1]]

\* The six symbols after the anchor of text are the barcode.
Tagged(text) ==
  LET after == TextAfter(text, FirstAnchor(text))
  IN Len(after) >= 6 /\ SubSeq(after, 1, 6) = <<"A", "G", "C", "A", "A", "T">>

\* The sequences printed for the first anchor of text: one or none.
OwnSeqs(vm, g, text) ==
  LET sg == Segment(vm, text)
  IN IF sg # None /\ sg.aStart > sg.virEnd /\ (g => Tagged(text))
     THEN <<Slice(text, sg.virEnd, sg.aStart)>>
     ELSE <<>>

\* The sequences printed by process on text: those of the anchors after the
\* first one, then that of the first one.
RECURSIVE SeqsOf(_, _, _)
SeqsOf(vm, g, text) ==
  LET anchor == FirstAnchor(text)
  IN IF anchor = None THEN <<>>
     ELSE SeqsOf(vm, g, TextAfter(text, anchor)) \o OwnSeqs(vm, g, text)

Seqs(o) == [k \in 1..Len(o) |-> o[k].seq]

\* The text of the call of main in progress.
PassText == IF pc = "rev" THEN reverse_complement(seq) ELSE seq

Entering == stack # <<>> /\ Top.at = "enter"
Resuming == stack # <<>> /\ Top.at = "resume"
Printing == Len(out') > Len(out)

\* The step makes a call on the text after the anchor of the call in progress.
CallsOnSuffix ==
  /\ Len(stack') = Len(stack) + 1
  /\ stack'[Len(stack')].at = "enter"
  /\ stack'[Len(stack')].text = TextAfter(Top.text, FirstAnchor(Top.text))

(***************************************************************************)
(* The properties.                                                         *)
(***************************************************************************)
\* C1: the output only grows at its end; when a call of main on a text
\* returns, the records printed since it began are those of the anchors of
\* the text from the last anchor to the first (every record of the anchors
\* after an anchor comes before the record of that anchor); and the records of
\* the reverse complement of a read come right after those of the read.
C1_Order ==
  [][/\ Len(out') >= Len(out) /\ SubSeq(out', 1, Len(out)) = out
     /\ (stack # <<>> /\ stack' = <<>>) =>
          LET first   == stack[1].first
              forward == SeqsOf(viral_matcher, gated, seq)
          IN /\ Seqs(SubSeq(out', first + 1, Len(out')))
                  = SeqsOf(viral_matcher, gated, PassText)
             /\ pc = "rev" =>
                  /\ first >= Len(forward)
                  /\ Seqs(SubSeq(out', first - Len(forward) + 1, first))
                       = forward]_vars

\* Two reads: two anchors on one strand, then a construct on each strand.
C1_Witness ==
  /\ nreads = 2 /\ pc = "rev" /\ stack = <<>>
  /\ ~gated /\ viral_matcher = SIV_matcher
  /\ seq = ReadBothStrands
  /\ Seqs(out) = <<Seg2, Seg1, Seg1, Seg2>>

\* C2: the counter is 1 plus the number of records printed so far, and the
\* k-th record printed carries the identifier k, in every state of a run
\* (through all reads, reverse complements and files).
C2_Counter ==
  /\ LINENO = 1 + Len(out)
  /\ \A k \in 1..Len(out) : out[k].id = k

\* Records of two reads, and a file opened after them.
C2_Witness ==
  /\ nreads = 2 /\ pc = "file"
  /\ Len(out) = 4 /\ out[4].id = 4 /\ LINENO = 5

\* C3: the sequence of a record printed for an anchor is prefix[virEnd:aStart],
\* prefix being the text before the first anchor, virEnd the highest end
\* offset of a viral motif in prefix and aStart virEnd plus the start of the
\* first poly-A run of prefix[virEnd:].
C3_Segment ==
  [][Printing =>
       LET prefix == TextBefore(Top.text, FirstAnchor(Top.text))
           sg     == Segment(viral_matcher, Top.text)
       IN /\ Resuming
          /\ sg # None
          /\ out'[Len(out')].seq = Slice(prefix, sg.virEnd, sg.aStart)]_vars

\* Two motifs, a poly-A run before the last motif and two after it: the
\* segment between the last motif and the run that follows it.
C3_Witness ==
  /\ nreads = 1 /\ pc = "fwd" /\ stack = <<>>
  /\ ~gated /\ viral_matcher = SIV_matcher
  /\ seq = ReadRepeats
  /\ out = <<[id |-> 1, tag |-> <<>>, seq |-> Seg1]>>

\* C4: every record printed has a sequence of at least one symbol; a record
\* is printed only when aStart > virEnd; and when the poly-A run starts at
\* virEnd, nothing is printed for the anchor and the counter stays.
C4_NonEmpty ==
  [][LET sg == Segment(viral_matcher, Top.text)
     IN /\ \A k \in 1..Len(out') : Len(out'[k].seq) >= 1
        /\ Printing => sg.aStart > sg.virEnd
        /\ (Resuming /\ sg # None /\ sg.aStart = sg.virEnd) =>
             (out' = out /\ LINENO' = LINENO)]_vars

\* The poly-A run right after the motif gave nothing; the next anchor gave
\* its segment, as the first record.
C4_Witness ==
  /\ nreads = 1 /\ pc = "fwd" /\ stack = <<>>
  /\ ~gated /\ viral_matcher = SIV_matcher
  /\ seq = ReadDegenerate
  /\ out = <<[id |-> 1, tag |-> <<>>, seq |-> Seg2]>> /\ LINENO = 2

\* C5: a step prints at most one record, and only the step that ends the
\* handling of an anchor prints; the records printed since a call of main on
\* a text began are never more than the anchors of the text; a text with no
\* anchor gets no record, and the counter stays.
C5_AtMostOne ==
  [][/\ Len(out') <= Len(out) + 1
     /\ Printing => Resuming
     /\ stack # <<>> =>
          /\ Len(out') - stack[1].first <= AnchorCount(stack[1].text)
          /\ AnchorCount(stack[1].text) = 0 =>
               (out' = out /\ LINENO' = LINENO /\ stack' = <<>>)]_vars

\* A read with an anchor that gave a record, then a read with no anchor on
\* either strand.
C5_Witness ==
  /\ nreads = 2 /\ pc = "rev" /\ stack = <<>>
  /\ viral_matcher = HIV_matcher
  /\ seq = ReadPlain
  /\ Len(out) = 1 /\ LINENO = 2

C7_Barcode ==
  [][gated =>
       /\ Printing =>
            /\ Tagged(Top.text)
            /\ out'[Len(out')].tag = <<"A", "G", "C", "A", "A", "T">>
            /\ out'[Len(out')].id = LINENO
       /\ (Resuming /\ ~Tagged(Top.text)) => out' = out
       /\ (Entering /\ FirstAnchor(Top.text) # None) => CallsOnSuffix
       /\ \A p \in ScenarioParts :
            (/\ nreads' = 1 /\ pc' = "fwd" /\ stack' = <<>>
             /\ seq' = Scenario(p[1], p[2], p[3]))
              => out' = IF p[3] = OtherTag THEN <<>>
                        ELSE <<[id |-> 1,
                                tag |-> <<"A", "G", "C", "A", "A", "T">>,
                                seq |-> p[2]]>>]_vars

\* Two anchors, the first followed by another tag: only the second anchor,
\* reached by the call on the text after the first, gives a record.
C7_Witness ==
  /\ nreads = 1 /\ pc = "fwd" /\ stack = <<>>
  /\ gated
  /\ seq = ReadTwo
  /\ out = <<[id |-> 1, tag |-> BARCODE, seq |-> Seg2]>>

\* C8: the reverse complement of a string has the length of the string and,
\* at each position, the complement (A<->T, C<->G, N for anything else) of the
\* symbol at the mirrored position; applied twice it gives the string with
\* every symbol other than A, C, G, T replaced by N, so the string itself
\* when it holds none; and it is defined on every string.
C8_ReverseComplement ==
  LET comp(x) == CASE x = "A" -> "T" [] x = "T" -> "A"
                   [] x = "C" -> "G" [] x = "G" -> "C" [] OTHER -> "N"
      known(x) == IF x \in {"A", "C", "G", "T"} THEN x ELSE "N"
  IN /\ Len(rc) \in 1..2 => ENABLED ApplyRC
     /\ Len(rc) >= 2 =>
          /\ Len(rc[2]) = Len(rc[1])
          /\ \A i \in 1..Len(rc[1]) : rc[2][i] = comp(rc[1][Len(rc[1]) + 1 - i])
     /\ Len(rc) >= 3 =>
          /\ rc[3] = [i \in 1..Len(rc[1]) |-> known(rc[1][i])]
          /\ (\A i \in 1..Len(rc[1]) : rc[1][i] \in {"A", "C", "G", "T"})
               => rc[3] = rc[1]

C8_Witness ==
  /\ Len(rc) = 3
  /\ rc[1] = <<"a", "C", "G">>
  /\ rc[2] = <<"C", "G", "N">>
  /\ rc[3] = <<"N", "C", "G">>

\* C9: process makes the call on the text after every anchor it finds; and
\* whenever the anchor of a call gives nothing (no viral motif, no poly-A run
\* after the motif, or a segment of no length), the records printed by the
\* call are those of the text after the anchor processed alone, in the same
\* order.
C9_Recursion ==
  [][/\ (Entering /\ FirstAnchor(Top.text) # None) => CallsOnSuffix
     /\ (Resuming /\ OwnSeqs(viral_matcher, gated, Top.text) = <<>>) =>
          /\ out' = out
          /\ Seqs(SubSeq(out', Top.first + 1, Len(out')))
               = SeqsOf(viral_matcher, gated,
                        TextAfter(Top.text, FirstAnchor(Top.text)))]_vars

\* Three anchors that give nothing, each for another reason, before one that
\* gives its segment.
C9_Witness ==
  /\ nreads = 1 /\ pc = "fwd" /\ stack = <<>>
  /\ ~gated /\ viral_matcher = SIV_matcher
  /\ seq = ReadBarren
  /\ Seqs(out) = <<Seg1>>

\* Each call in progress but the outermost is on the text after the anchor of
\* the call that made it, a text shorter than that call's since the anchor
\* holds at least one symbol; the calls made below the outermost are never
\* more than the anchors of its text, and are as many when the text with no
\* anchor is reached.
C10_Calls ==
  /\ \A k \in 2..Len(stack) :
       LET up  == stack[k - 1].text
           hit == FirstAnchor(up).matchlist[1]
       IN /\ FirstAnchor(up) # None
          /\ hit[2] > hit[1]
          /\ stack[k].text = SliceFrom(up, hit[2])
          /\ Len(stack[k].text) < Len(up)
  /\ stack # <<>> =>
       /\ Len(stack) - 1 <= AnchorCount(stack[1].text)
       /\ (Entering /\ FirstAnchor(Top.text) = None) =>
            Len(stack) - 1 = AnchorCount(stack[1].text)

\* C10: process terminates (every call of main on a text returns), each
\* recursive call is on a strict suffix of its caller's text, the text after
\* a non-empty anchor, the recursion ends at the first text with no anchor,
\* and the recursive calls are as many as the anchors.
C10_Terminates == []C10_Calls /\ (stack # <<>> ~> stack = <<>>)

\* The call on the text with no anchor, four calls below the outermost.
C10_Witness ==
  /\ pc = "fwd" /\ seq = ReadBarren
  /\ Len(stack) = 5 /\ Entering /\ FirstAnchor(Top.text) = None

=============================================================================
